---- MODULE Spec2Model ----
(***************************************************************************)
(* The monitoring client of services/frontend: the push channel client     *)
(* (useWebSocket), the reconciliation core (App.handleWebSocketMessage),   *)
(* the cached queries App configures, and the values App derives for       *)
(* rendering.                                                              *)
(*                                                                         *)
(* React state (isConnected, error, liveSignals, livePerformance) is the   *)
(* value last handed to its setter.  A browser event (open, close,         *)
(* message, timer) runs its handler to completion in one step: the event   *)
(* loop is single-threaded.                                                *)
(***************************************************************************)
EXTENDS Integers, Sequences, FiniteSets, TLC

\* ---------------------------------------------------------------- bounds
\* WebSocket objects that may be alive (not yet Closed) at the same time.
NumSockets == 2
\* Reconnect timers that may be pending at the same time.
NumTimers == 2
\* `signal` envelopes the server sends in a run of Spec.
MaxSignals == 2
\* `signal` envelopes the server sends in a run of SpecBuffer.
MaxRun == 52
\* Distinct snapshot versions the backend serves, and distinct pushed
\* performance values.
MaxVersion == 2

\* Signals followed beside the cached queries
CoreSignals == 1
\* Re-runs of the channel's effect that are followed
MaxReruns == 1
\* Frames followed while the arrival order is logged
MaxFrames == 3
\* Longest trade list handed to the P&L chart
MaxTrades == 3
\* Renders of the same lists that are followed
MaxRenders == 2
MaxHeld == 2

\* ------------------------------------------------------ program constants
maxAttempts == 10
BaseDelayMs == 1000
CapDelayMs == 30000
BufferCap == 50
\* App.tsx:42 .slice(0, 10)
TickerCap == 10
\* App.tsx:39 trades.slice(0, 10)
TradeWindow == 10
\* App.tsx:130 maxSignals={10}
FeedMax == 10

Min(a, b) == IF a < b THEN a ELSE b

RECURSIVE Pow2(_)
Pow2(n) == IF n = 0 THEN 1 ELSE 2 * Pow2(n - 1)

\* ------------------------------------------------------------------ state
VARIABLES
    phase,                \* "idle" | "mounted" | "unmounted": the effect's life
    wsCtorThrows,         \* whether `new WebSocket(WS_URL)` throws here
    isConnected,          \* useState(false)
    error,                \* useState<string|null>(null); "null" is null
    wsRef,                \* wsRef.current: a socket, or 0 for null
    reconnectTimeoutRef,  \* reconnectTimeoutRef.current: a timer, 0 = undefined
    reconnectAttemptsRef, \* reconnectAttemptsRef.current
    sockets,              \* readyState of every WebSocket object
    timers,               \* the pending setTimeout handles
    reruns,               \* re-runs of the effect (a new onMessage identity) so far
    sentFrames,         \* frames the client has sent (calls of ws.send) so far
    liveSignals,          \* useState<Signal[]>([])
    livePerformance,      \* useState<Performance|null>(null)
    queryData,            \* useQuery(...).data per resource, 0 = undefined
    queryStatus,          \* useQuery(...).status per resource
    fetching,             \* a fetch of the resource is in flight
    \* history: what an observer of the run has seen
    delayLog,             \* per Closed event since the last Open: its delay, 0 = none scheduled
    calledAfterTeardown,  \* onMessage was invoked after the cleanup ran
    reopened,             \* some Open event found the attempt counter above 0
    signalsReceived,      \* `signal` envelopes handled so far
    lastFrame,            \* kind of the frame that arrived last
    lastHandled,          \* type of the envelope handled last
    refetchLog,           \* the refetch() calls that handling made, in order
    lastPushed,           \* payload of the last `performance` envelope
    perfOrder,            \* "push" | "poll": which performance update came last
    \* the view: what App renders from and what the render derived
    positions,            \* `positions` of App.tsx:17 (data, [] by default)
    trades,               \* `trades` of App.tsx:23 (data, [] by default)
    chartData,            \* PnLChart's chartData of the last render
    uniqueTickers,        \* App's uniqueTickers of the last render
    renders,              \* how many times App has rendered the lists
    selectedTicker,       \* SentimentChart's useState: the ticker chosen in its selector
    \* the observer's log of a run of frames
    arrivalLog,           \* the frames that arrived, in arrival order
    refetchHistory        \* every refetch() call made, in call order

chanVars == <<phase, wsCtorThrows, isConnected, error, wsRef, reconnectTimeoutRef,
              reconnectAttemptsRef, sockets, timers, delayLog, calledAfterTeardown,
              reruns, sentFrames, reopened>>
coreVars == <<liveSignals, livePerformance, signalsReceived, lastFrame, lastHandled,
              refetchLog, lastPushed>>
queryVars == <<queryData, queryStatus, fetching>>
viewVars == <<positions, trades, chartData, uniqueTickers, renders, selectedTicker>>
logVars == <<arrivalLog, refetchHistory>>
vars == <<chanVars, coreVars, queryVars, perfOrder, viewVars, logVars>>

SocketIds == 1..NumSockets
TimerIds == 1..NumTimers
Resources == {"positions", "trades", "performance"}
Versions == 1..MaxVersion

NoError == "null"
ErrConnection == "WebSocket connection error"
ErrTerminal == "Failed to connect after multiple attempts"
ErrCreate == "Failed to create WebSocket connection"

NoPerf == [src |-> "none", v |-> 0]
PushedPerf(v) == [src |-> "push", v |-> v]
PolledPerf(v) == [src |-> "poll", v |-> v]

\* A payload that decodes but has not the shape of its tag (a `signal` whose
\* data is a number, say).
BadPayload == [src |-> "bad", v |-> 0]

\* The frames the server may put on the wire: text that does not decode,
\* one of the three envelopes, or an envelope that decodes but is malformed
\* (a tag outside the three, or a payload of the wrong shape).  `kind` names
\* the frame for the observer; the program reads `type` and `data`.
Envelopes ==
    {[kind |-> "signal", type |-> "signal", data |-> NoPerf],
     [kind |-> "position_update", type |-> "position_update", data |-> NoPerf]}
    \cup {[kind |-> "performance", type |-> "performance", data |-> PushedPerf(v)] :
            v \in Versions}
MalformedEnvelopes ==
    {[kind |-> "unknown_tag", type |-> "unknown", data |-> NoPerf],
     [kind |-> "signal_bad_data", type |-> "signal", data |-> BadPayload],
     [kind |-> "performance_bad_data", type |-> "performance", data |-> BadPayload]}
\* The text `null`: it decodes, to a value that has no `type` to read.
NullFrame == [kind |-> "null_value", type |-> "none", data |-> NoPerf]
Frames ==
    {[kind |-> "garbage", type |-> "garbage", data |-> NoPerf], NullFrame}
    \cup Envelopes \cup MalformedEnvelopes

\* ------------------------------------------------- push channel client
\* Mutants of Delay: Math.pow's arguments swapped; the cap left out.
DelaySwappedPow(attempts) == Min(BaseDelayMs * attempts * attempts, CapDelayMs)
DelayUncapped(attempts) == BaseDelayMs * Pow2(attempts)

\* types.ts:103: Math.min(1000 * Math.pow(2, attempts), 30000)
Delay(attempts) == Min(BaseDelayMs * Pow2(attempts), CapDelayMs)

\* Mutant of ShouldReconnect: a single retry.
ShouldReconnectOnce(attempts) == attempts < 1

\* Mutant of ShouldReconnect: <= for <.
ShouldReconnectInclusive(attempts) == attempts <= maxAttempts

\* types.ts:105: if (reconnectAttemptsRef.current < maxAttempts)
ShouldReconnect(attempts) == attempts < maxAttempts

\* A WebSocket object that can be handed out by `new WebSocket`: one never
\* created, or one that is Closed (it fires no further event).
FreeSockets == {s \in SocketIds : sockets[s] \in {"NONE", "CLOSED"}}
FreeTimers == TimerIds \ timers
Least(S) == CHOOSE x \in S : \A y \in S : x <= y

\* Mutant of connect: the catch block without its setError.
connectSwallowsThrow ==
    IF wsCtorThrows
    THEN UNCHANGED <<error, sockets, wsRef>>
    ELSE /\ FreeSockets # {}
         /\ sockets' = [sockets EXCEPT ![Least(FreeSockets)] = "CONNECTING"]
         /\ wsRef' = Least(FreeSockets)
         /\ UNCHANGED error

\* types.ts:72-121, the body of connect(): the handlers are attached to the
\* new socket and stay attached for its whole life.
connect ==
    IF wsCtorThrows
    THEN /\ error' = ErrCreate
         /\ UNCHANGED <<sockets, wsRef>>
    ELSE /\ FreeSockets # {}
         /\ sockets' = [sockets EXCEPT ![Least(FreeSockets)] = "CONNECTING"]
         /\ wsRef' = Least(FreeSockets)
         /\ UNCHANGED error

\* Mutant of onclose: the handler without its setIsConnected(false).
oncloseKeepsConnected(errBefore) ==
    /\ UNCHANGED isConnected
    /\ IF ShouldReconnect(reconnectAttemptsRef)
       THEN /\ FreeTimers # {}
            /\ timers' = timers \cup {Least(FreeTimers)}
            /\ reconnectTimeoutRef' = Least(FreeTimers)
            /\ error' = errBefore
            /\ delayLog' = Append(delayLog, Delay(reconnectAttemptsRef))
       ELSE /\ error' = ErrTerminal
            /\ delayLog' = Append(delayLog, 0)
            /\ UNCHANGED <<timers, reconnectTimeoutRef>>

\* types.ts:97-114, ws.onclose; errBefore is the error status as the same
\* task's onerror (types.ts:92-95) left it.
onclose(errBefore) ==
    /\ isConnected' = FALSE
    /\ IF ShouldReconnect(reconnectAttemptsRef)
       THEN /\ FreeTimers # {}
            /\ timers' = timers \cup {Least(FreeTimers)}
            /\ reconnectTimeoutRef' = Least(FreeTimers)
            /\ error' = errBefore
            /\ delayLog' = Append(delayLog, Delay(reconnectAttemptsRef))
       ELSE /\ error' = ErrTerminal
            /\ delayLog' = Append(delayLog, 0)
            /\ UNCHANGED <<timers, reconnectTimeoutRef>>

\* WebSocket.close(): an Open or Connecting socket starts closing, its close
\* event comes later; a Closing or Closed one is left as it is.
CloseSocket(state) == IF state \in {"CONNECTING", "OPEN"} THEN "CLOSING" ELSE state

\* types.ts:127-129: clearTimeout of the handle the ref holds.
ClearTimeout(pending, ref) == IF ref # 0 THEN pending \ {ref} ELSE pending

\* ------------------------------------------------- reconciliation core
\* Mutant of Prepend: the new signal added at the tail.
AppendAtTail(signal, prev, cap) == SubSeq(prev \o <<signal>>, 1, Min(Len(prev) + 1, cap))

\* App.tsx:48: [signal, ...prev].slice(0, 50)
Prepend(signal, prev, cap) == SubSeq(<<signal>> \o prev, 1, Min(Len(prev) + 1, cap))

\* Mutants of RefetchesFor: a signal that forgets the trades; a position
\* update that refetches the trades too.
RefetchesForgetTrades(type) ==
    IF type \in {"signal", "position_update"} THEN <<"positions">> ELSE <<>>
RefetchesAlwaysBoth(type) ==
    IF type \in {"signal", "position_update"} THEN <<"positions", "trades">> ELSE <<>>

\* Mutant of RefetchesFor: a signal's two refetch calls in the other order.
RefetchesTradesFirst(type) ==
    IF type = "signal" THEN <<"trades", "positions">>
    ELSE IF type = "position_update" THEN <<"positions">>
    ELSE <<>>

\* App.tsx:46-57: the refetch() calls handling an envelope makes, in order.
RefetchesFor(type) ==
    IF type = "signal" THEN <<"positions", "trades">>
    ELSE IF type = "position_update" THEN <<"positions">>
    ELSE <<>>

\* Mutant of NextLivePerformance: a `signal` envelope clears the pushed value.
NextLivePerformanceClearedBySignal(type, data, cur) ==
    IF type = "performance" THEN data ELSE IF type = "signal" THEN NoPerf ELSE cur

\* App.tsx:53-54: setLivePerformance(message.data)
NextLivePerformance(type, data, cur) == IF type = "performance" THEN data ELSE cur

Range(seq) == {seq[i] : i \in 1..Len(seq)}

\* Mutant of handleWebSocketMessage: a `performance` envelope also resets
\* the signal buffer.
handleResetsBufferOnPerformance(message) ==
    /\ lastHandled' = message.type
    /\ refetchLog' = RefetchesFor(message.type)
    /\ fetching' = [r \in Resources |->
                      fetching[r] \/ r \in Range(RefetchesFor(message.type))]
    /\ livePerformance' = NextLivePerformance(message.type, message.data, livePerformance)
    /\ IF message.type = "signal"
       THEN /\ signalsReceived' = signalsReceived + 1
            /\ liveSignals' = Prepend(signalsReceived + 1, liveSignals, BufferCap)
       ELSE /\ UNCHANGED signalsReceived
            /\ liveSignals' = IF message.type = "performance" THEN <<>> ELSE liveSignals
    /\ IF message.type = "performance"
       THEN lastPushed' = message.data /\ perfOrder' = "push"
       ELSE UNCHANGED <<lastPushed, perfOrder>>

\* App.tsx:45-58, handleWebSocketMessage(message)
handleWebSocketMessage(message) ==
    /\ lastHandled' = message.type
    /\ refetchLog' = RefetchesFor(message.type)
    /\ fetching' = [r \in Resources |->
                      fetching[r] \/ r \in Range(RefetchesFor(message.type))]
    /\ livePerformance' = NextLivePerformance(message.type, message.data, livePerformance)
    /\ IF message.type = "signal"
       THEN /\ signalsReceived' = signalsReceived + 1
            /\ liveSignals' = Prepend(signalsReceived + 1, liveSignals, BufferCap)
       ELSE UNCHANGED <<signalsReceived, liveSignals>>
    /\ IF message.type = "performance"
       THEN lastPushed' = message.data /\ perfOrder' = "push"
       ELSE UNCHANGED <<lastPushed, perfOrder>>

\* App.tsx:29 and 63-64: the polled snapshot, and what is displayed.
performance ==
    IF queryData["performance"] = 0 THEN NoPerf ELSE PolledPerf(queryData["performance"])
\* Mutant of displayPerformance: `performance || livePerformance`.
displayPolledFirst == IF performance # NoPerf THEN performance ELSE livePerformance
displayPerformance == IF livePerformance # NoPerf THEN livePerformance ELSE performance

\* Mutant of Snapshot: the consumer is shown nothing while the query is in error.
SnapshotUnlessError(r) == IF queryStatus[r] = "error" THEN 0 ELSE queryData[r]

\* App.tsx:17, 23 and 29: what App renders from is `data` itself, whatever
\* the query's status (`data: positions = []`; 0 stands for undefined, which
\* the default turns into the empty list).
Snapshot(r) == queryData[r]

\* ------------------------------------------------------------ the view
\* realized_pnl?: number (types.ts:19) as it arrives in JSON: the key is
\* missing, or it holds null (the column is NULL for BUY trades), or a number.
Undefined == [t |-> "undefined", n |-> 0]
Null == [t |-> "null", n |-> 0]
Num(n) == [t |-> "number", n |-> n]

Take(seq, n) == SubSeq(seq, 1, Min(Len(seq), n))

\* Mutant of displaySignals: the last maxSignals entries, signals.slice(-maxSignals).
displayOldest(signals, maxSignals) ==
    SubSeq(signals, Len(signals) - Min(Len(signals), maxSignals) + 1, Len(signals))

\* SignalsFeed (part_000:9-10): signals.slice(0, maxSignals)
displaySignals(signals, maxSignals) == Take(signals, maxSignals)

\* App.tsx:130: <SignalsFeed signals={liveSignals} maxSignals={10} />
SignalsFeed == displaySignals(liveSignals, FeedMax)

\* PnLChart.tsx:18: t => t.realized_pnl !== undefined
HasRealizedPnl(trade) == trade.realized_pnl # Undefined

\* PnLChart.tsx:22: trade.realized_pnl || 0
OrZero(pnl) == IF pnl.t = "number" THEN pnl.n ELSE 0

\* new Date(timestamp).getTime(): seconds on the wire, milliseconds out.
GetTime(timestamp) == 1000 * timestamp

\* Mutant of Compare: the operands swapped.
CompareDescending(a, b) == GetTime(b.timestamp) - GetTime(a.timestamp)

\* PnLChart.tsx:19: the comparator handed to sort
Compare(a, b) == GetTime(a.timestamp) - GetTime(b.timestamp)

\* Array.prototype.sort with that comparator (PnLChart.tsx:19): stable, so
\* an element goes behind every earlier element that is not greater.
RECURSIVE InsertSorted(_, _)
InsertSorted(sorted, x) ==
    IF sorted = <<>> THEN <<x>>
    ELSE LET last == sorted[Len(sorted)]
         IN  IF Compare(last, x) <= 0 THEN Append(sorted, x)
             ELSE Append(InsertSorted(SubSeq(sorted, 1, Len(sorted) - 1), x), last)
RECURSIVE Sort(_)
Sort(seq) ==
    IF seq = <<>> THEN <<>>
    ELSE InsertSorted(Sort(SubSeq(seq, 1, Len(seq) - 1)), seq[Len(seq)])

\* The reducer of PnLChart.tsx:20-31
RECURSIVE Reduce(_, _)
Reduce(acc, list) ==
    IF list = <<>> THEN acc
    ELSE LET trade == Head(list)
             prevPnL == IF Len(acc) > 0 THEN acc[Len(acc)].cumulative_pnl ELSE 0
             newPnL == prevPnL + OrZero(trade.realized_pnl)
         IN  Reduce(Append(acc, [timestamp |-> trade.timestamp,
                                 cumulative_pnl |-> newPnL]),
                    Tail(list))

\* Mutant of InitialAcc: one accumulator array shared by all calls.
SharedAcc(left) == left

\* PnLChart.tsx:31: the `[]` the reduction starts from, a fresh array at
\* every call whatever the previous call left behind.
InitialAcc(left) == <<>>

\* PnLChart.tsx:17-31: filter (a copy), sort the copy, reduce.  `left` is
\* the series the previous call produced.
cumulativePnL(list, left) ==
    Reduce(InitialAcc(left), Sort(SelectSeq(list, HasRealizedPnl)))

\* Mutant of TradesAfterChart: sort called on the prop itself, which
\* Array.prototype.sort reorders in place.
TradesSortedInPlace(list) == Sort(list)

\* The array behind the `trades` prop after PnLChart has computed chartData
\* (PnLChart.tsx:17-19): filter returns a new array and leaves its receiver
\* alone; sort works in place, on that new array; reduce writes to `acc`.
TradesAfterChart(list) == list

DefaultTickers == <<"AAPL", "TSLA", "GME">>
TickersOf(list) == [i \in 1..Len(list) |-> list[i].ticker]

\* Mutant of Dedup: the Set left out.
NoDedup(xs) == xs

\* Array.from(new Set(xs)) (App.tsx:35-42): a Set iterates in insertion
\* order, so each value stays at its first occurrence.
RECURSIVE Dedup(_)
Dedup(xs) ==
    IF xs = <<>> THEN <<>>
    ELSE LET front == Dedup(SubSeq(xs, 1, Len(xs) - 1))
             x == xs[Len(xs)]
         IN  IF x \in Range(front) THEN front ELSE Append(front, x)

\* Mutant of TickerSources: the defaults spread first.
TickerSourcesDefaultsFirst(ps, ts) ==
    DefaultTickers \o TickersOf(ps) \o TickersOf(Take(ts, TradeWindow))

\* App.tsx:36-41: the array literal handed to the Set
TickerSources(ps, ts) ==
    TickersOf(ps) \o TickersOf(Take(ts, TradeWindow)) \o DefaultTickers

\* App.tsx:35-42
uniqueTickersOf(ps, ts) == Take(Dedup(TickerSources(ps, ts)), TickerCap)

\* The selection while no SentimentChart is mounted.
NoTicker == "none"

\* SentimentChart's selection after a render of App with the given tickers
\* (App.tsx:139-144, part_000:86-87): the chart is rendered while the list is
\* not empty; useState takes `tickers[0] || 'AAPL'` when the chart mounts and
\* keeps the state it has on every later render.
Selection(selected, tickers) ==
    IF tickers = <<>> THEN NoTicker
    ELSE IF selected = NoTicker THEN tickers[1]
    ELSE selected

\* ------------------------------------------------------------- actions
InitClient ==
    /\ phase = "idle"
    /\ wsCtorThrows \in BOOLEAN
    /\ isConnected = FALSE
    /\ error = NoError
    /\ wsRef = 0
    /\ reconnectTimeoutRef = 0
    /\ reconnectAttemptsRef = 0
    /\ sockets = [s \in SocketIds |-> "NONE"]
    /\ timers = {}
    /\ reruns = 0
    /\ sentFrames = 0
    /\ reopened = FALSE
    /\ liveSignals = <<>>
    /\ livePerformance = NoPerf
    /\ queryData = [r \in Resources |-> 0]
    /\ queryStatus = [r \in Resources |-> "pending"]
    /\ fetching = [r \in Resources |-> FALSE]
    /\ delayLog = <<>>
    /\ calledAfterTeardown = FALSE
    /\ signalsReceived = 0
    /\ lastFrame = "none"
    /\ lastHandled = "none"
    /\ refetchLog = <<>>
    /\ lastPushed = NoPerf
    /\ perfOrder = "none"
    /\ arrivalLog = <<>>
    /\ refetchHistory = <<>>

\* Before the first fetch returns the lists are the `= []` defaults of
\* App.tsx:17 and 23, and nothing has been rendered from them.
InitView ==
    /\ positions = <<>>
    /\ trades = <<>>
    /\ chartData = <<>>
    /\ uniqueTickers = <<>>
    /\ renders = 0
    /\ selectedTicker = NoTicker

Init == InitClient /\ InitView

\* The mount effects: useWebSocket's effect calls connect() (types.ts:123-124)
\* and each useQuery starts its first fetch (App.tsx:17-33).  App passes a
\* callback memoised over the queries' refetch functions (App.tsx:45-58), so
\* the effect runs once and its cleanup runs at unmount.
Mount ==
    /\ phase = "idle"
    /\ phase' = "mounted"
    /\ connect
    /\ fetching' = [r \in Resources |-> TRUE]
    /\ UNCHANGED <<logVars, viewVars, reruns, sentFrames, reopened, wsCtorThrows, isConnected, reconnectTimeoutRef, reconnectAttemptsRef,
                   timers, delayLog, calledAfterTeardown, coreVars, queryData,
                   queryStatus, perfOrder>>

\* The effect's cleanup (types.ts:126-133); the queries' interval timers stop
\* with the component.
Teardown ==
    /\ phase = "mounted"
    /\ phase' = "unmounted"
    /\ timers' = ClearTimeout(timers, reconnectTimeoutRef)
    /\ sockets' = [s \in SocketIds |->
                     IF s = wsRef THEN CloseSocket(sockets[s]) ELSE sockets[s]]
    /\ UNCHANGED <<logVars, viewVars, reruns, sentFrames, reopened, wsCtorThrows, isConnected, error, wsRef, reconnectTimeoutRef,
                   reconnectAttemptsRef, delayLog, calledAfterTeardown, coreVars,
                   queryVars, perfOrder>>

\* The effect re-runs because `connect` has a new identity, which it gets
\* when onMessage has one (types.ts:121, 134): React runs the cleanup of the
\* previous run (types.ts:126-133) and then the effect body, connect()
\* (types.ts:124), in the same commit.
Rerun ==
    /\ phase = "mounted"
    /\ reruns < MaxReruns
    /\ reruns' = reruns + 1
    /\ timers' = ClearTimeout(timers, reconnectTimeoutRef)
    /\ LET closed == [s \in SocketIds |->
                        IF s = wsRef THEN CloseSocket(sockets[s]) ELSE sockets[s]]
           free == {s \in SocketIds : closed[s] \in {"NONE", "CLOSED"}}
       IN  IF wsCtorThrows
           THEN /\ error' = ErrCreate
                /\ sockets' = closed
                /\ UNCHANGED wsRef
           ELSE /\ free # {}
                /\ sockets' = [closed EXCEPT ![Least(free)] = "CONNECTING"]
                /\ wsRef' = Least(free)
                /\ UNCHANGED error
    /\ UNCHANGED <<logVars, viewVars, sentFrames, reopened, phase, wsCtorThrows, isConnected,
                   reconnectTimeoutRef, reconnectAttemptsRef, delayLog,
                   calledAfterTeardown, coreVars, queryVars, perfOrder>>

\* Mutant of SocketOpen: the handler sends a subscribe frame.
SocketOpenSubscribes(s) ==
    /\ sentFrames' = sentFrames + 1
    /\ sockets[s] = "CONNECTING"
    /\ sockets' = [sockets EXCEPT ![s] = "OPEN"]
    /\ isConnected' = TRUE
    /\ error' = NoError
    /\ reconnectAttemptsRef' = 0
    /\ delayLog' = <<>>
    /\ reopened' = (reopened \/ reconnectAttemptsRef > 0)
    /\ UNCHANGED <<logVars, viewVars, reruns, phase, wsCtorThrows, wsRef, reconnectTimeoutRef, timers,
                   calledAfterTeardown, coreVars, queryVars, perfOrder>>

\* Mutant of SocketOpen: the handler without its reset of the counter.
SocketOpenKeepsCounter(s) ==
    /\ sockets[s] = "CONNECTING"
    /\ sockets' = [sockets EXCEPT ![s] = "OPEN"]
    /\ isConnected' = TRUE
    /\ error' = NoError
    /\ UNCHANGED reconnectAttemptsRef
    /\ delayLog' = <<>>
    /\ reopened' = (reopened \/ reconnectAttemptsRef > 0)
    /\ UNCHANGED <<logVars, viewVars, reruns, sentFrames, phase, wsCtorThrows, wsRef, reconnectTimeoutRef, timers,
                   calledAfterTeardown, coreVars, queryVars, perfOrder>>

\* Mutant of SocketOpen: the handler without its setError(null).
SocketOpenKeepsError(s) ==
    /\ sockets[s] = "CONNECTING"
    /\ sockets' = [sockets EXCEPT ![s] = "OPEN"]
    /\ isConnected' = TRUE
    /\ UNCHANGED error
    /\ reconnectAttemptsRef' = 0
    /\ delayLog' = <<>>
    /\ reopened' = (reopened \/ reconnectAttemptsRef > 0)
    /\ UNCHANGED <<logVars, viewVars, reruns, sentFrames, phase, wsCtorThrows, wsRef, reconnectTimeoutRef, timers,
                   calledAfterTeardown, coreVars, queryVars, perfOrder>>

\* ws.onopen (types.ts:76-81)
SocketOpen(s) ==
    /\ sockets[s] = "CONNECTING"
    /\ sockets' = [sockets EXCEPT ![s] = "OPEN"]
    /\ isConnected' = TRUE
    /\ error' = NoError
    /\ reconnectAttemptsRef' = 0
    /\ delayLog' = <<>>
    /\ reopened' = (reopened \/ reconnectAttemptsRef > 0)
    /\ UNCHANGED <<logVars, viewVars, reruns, sentFrames, phase, wsCtorThrows, wsRef, reconnectTimeoutRef, timers,
                   calledAfterTeardown, coreVars, queryVars, perfOrder>>

\* The socket's close event, preceded in the same task by its error event
\* when the connection failed (types.ts:92-95, then 97-114).  A socket that
\* never opened cannot close cleanly.
SocketClosed(s, withError) ==
    /\ sockets[s] \in {"CONNECTING", "OPEN", "CLOSING"}
    /\ sockets[s] = "CONNECTING" => withError
    /\ sockets' = [sockets EXCEPT ![s] = "CLOSED"]
    /\ onclose(IF withError THEN ErrConnection ELSE error)
    /\ UNCHANGED <<logVars, viewVars, reruns, sentFrames, reopened, phase, wsCtorThrows, wsRef, reconnectAttemptsRef,
                   calledAfterTeardown, coreVars, queryVars, perfOrder>>

\* Mutant of TimerFire: the callback without its increment of the counter.
TimerFireKeepsCounter(t) ==
    /\ t \in timers
    /\ timers' = timers \ {t}
    /\ UNCHANGED reconnectAttemptsRef
    /\ connect
    /\ UNCHANGED <<logVars, viewVars, reruns, sentFrames, reopened, phase, wsCtorThrows, isConnected, reconnectTimeoutRef, delayLog,
                   calledAfterTeardown, coreVars, queryVars, perfOrder>>

\* The reconnect timer's callback (types.ts:107-110)
TimerFire(t) ==
    /\ t \in timers
    /\ timers' = timers \ {t}
    /\ reconnectAttemptsRef' = reconnectAttemptsRef + 1
    /\ connect
    /\ UNCHANGED <<logVars, viewVars, reruns, sentFrames, reopened, phase, wsCtorThrows, isConnected, reconnectTimeoutRef, delayLog,
                   calledAfterTeardown, coreVars, queryVars, perfOrder>>

\* Mutant of Decodes: the text is handed on without the JSON.parse that
\* would have thrown.
DecodesAnything(frame) == TRUE

\* types.ts:85: JSON.parse(event.data) returns, rather than throws.
Decodes(frame) == frame.kind # "garbage"

\* App.tsx:46: reading `message.type` of null throws a TypeError before the
\* callback has done anything.
CallbackThrows(message) == message = NullFrame

\* Mutant of SocketMessage: a handler that answers a fault by closing the
\* connection.
SocketMessageClosesOnFault(s, frame) ==
    /\ sockets[s] = "OPEN"
    /\ lastFrame' = frame.kind
    /\ IF ~Decodes(frame) \/ CallbackThrows(frame)
       THEN /\ sockets' = [sockets EXCEPT ![s] = "CLOSING"]
            /\ UNCHANGED <<liveSignals, livePerformance, signalsReceived, lastHandled,
                           refetchLog, lastPushed, perfOrder, fetching, calledAfterTeardown>>
       ELSE /\ calledAfterTeardown' = (calledAfterTeardown \/ phase = "unmounted")
            /\ handleWebSocketMessage(frame)
            /\ UNCHANGED sockets
    /\ UNCHANGED <<viewVars, reruns, sentFrames, reopened, phase, wsCtorThrows, isConnected, error, wsRef, reconnectTimeoutRef,
                   reconnectAttemptsRef, timers, delayLog, queryData, queryStatus>>

\* ws.onmessage (types.ts:83-90): a message event is dispatched only on an
\* Open socket.  Text that does not decode is caught and dropped; a decoded
\* envelope goes to onMessage, which is App's handleWebSocketMessage.
SocketMessage(s, frame) ==
    /\ sockets[s] = "OPEN"
    /\ lastFrame' = frame.kind
    /\ IF ~Decodes(frame)
       THEN UNCHANGED <<liveSignals, livePerformance, signalsReceived, lastHandled,
                        refetchLog, lastPushed, perfOrder, fetching, calledAfterTeardown>>
       ELSE /\ calledAfterTeardown' = (calledAfterTeardown \/ phase = "unmounted")
            /\ IF CallbackThrows(frame)
               THEN UNCHANGED <<liveSignals, livePerformance, signalsReceived,
                                lastHandled, refetchLog, lastPushed, perfOrder, fetching>>
               ELSE handleWebSocketMessage(frame)
    /\ UNCHANGED <<viewVars, reruns, sentFrames, reopened, phase, wsCtorThrows, isConnected, error, wsRef, reconnectTimeoutRef,
                   reconnectAttemptsRef, sockets, timers, delayLog, queryData, queryStatus>>

\* Mutant of PollEnabled: polling gated on the push channel being up.
PollEnabledWhileConnected(r) == phase = "mounted" /\ isConnected

\* refetchInterval: 10000 (App.tsx:20, 26, 32): the interval fires whatever
\* the last fetch's outcome was, for as long as the component is mounted.
PollEnabled(r) == phase = "mounted"

PollTick(r) ==
    /\ PollEnabled(r)
    /\ fetching' = [fetching EXCEPT ![r] = TRUE]
    /\ UNCHANGED <<chanVars, coreVars, queryData, queryStatus, perfOrder, viewVars, logVars>>

\* What a fetch that failed leaves in `data`: TanStack Query keeps the data
\* of the last success, and App.tsx:17-33 sets no option that resets it.
DataAfterFailure(prev) == prev

FetchSucceed(r, v) ==
    /\ fetching[r]
    /\ fetching' = [fetching EXCEPT ![r] = FALSE]
    /\ queryData' = [queryData EXCEPT ![r] = v]
    /\ queryStatus' = [queryStatus EXCEPT ![r] = "success"]
    /\ perfOrder' = IF r = "performance" THEN "poll" ELSE perfOrder
    /\ UNCHANGED <<chanVars, coreVars, viewVars, logVars>>

FetchFail(r) ==
    /\ fetching[r]
    /\ fetching' = [fetching EXCEPT ![r] = FALSE]
    /\ queryData' = [queryData EXCEPT ![r] = DataAfterFailure(queryData[r])]
    /\ queryStatus' = [queryStatus EXCEPT ![r] = "error"]
    /\ UNCHANGED <<chanVars, coreVars, perfOrder, viewVars, logVars>>

\* A render of App with the lists it holds: App derives uniqueTickers
\* (App.tsx:35-42) and PnLChart derives chartData from the `trades` prop
\* (App.tsx:127, PnLChart.tsx:17-31).  The props are left as they were.
Render ==
    /\ renders < MaxRenders
    /\ renders' = renders + 1
    /\ uniqueTickers' = uniqueTickersOf(positions, trades)
    /\ chartData' = cumulativePnL(trades, chartData)
    /\ selectedTicker' = Selection(selectedTicker, uniqueTickers')
    /\ trades' = TradesAfterChart(trades)
    /\ UNCHANGED <<positions, chanVars, coreVars, queryVars, perfOrder, logVars>>

\* A fetch of the positions returns a new list (App.tsx:17-21) and App
\* renders again with it.
PositionsArrive(ps) ==
    /\ renders > 0
    /\ positions' = ps
    /\ uniqueTickers' = uniqueTickersOf(ps, trades)
    /\ chartData' = cumulativePnL(trades, chartData)
    /\ selectedTicker' = Selection(selectedTicker, uniqueTickers')
    /\ trades' = TradesAfterChart(trades)
    /\ UNCHANGED <<renders, chanVars, coreVars, queryVars, perfOrder, logVars>>

\* A fetch of the trades returns a new list (App.tsx:23-27) and App renders
\* again with it.
TradesArrive(ts) ==
    /\ renders > 0
    /\ trades' = TradesAfterChart(ts)
    /\ uniqueTickers' = uniqueTickersOf(positions, ts)
    /\ chartData' = cumulativePnL(ts, chartData)
    /\ selectedTicker' = Selection(selectedTicker, uniqueTickers')
    /\ UNCHANGED <<positions, renders, chanVars, coreVars, queryVars, perfOrder, logVars>>

\* The user picks an option of the selector (part_000:107-117): the options
\* are the tickers of the last render.
SelectTicker(t) ==
    /\ selectedTicker # NoTicker
    /\ t \in Range(uniqueTickers)
    /\ selectedTicker' = t
    /\ UNCHANGED <<positions, trades, chartData, uniqueTickers, renders,
                   chanVars, coreVars, queryVars, perfOrder, logVars>>

\* The trade lists the P&L chart is rendered from.
PnlValues == {Undefined, Null, Num(10), Num(-4)}
\* Timestamps in seconds; two trades may carry the same one.
Timestamps == {1, 2, 3}
TradeRecords ==
    {[ticker |-> "AAPL", timestamp |-> ts, realized_pnl |-> pnl] :
        ts \in Timestamps, pnl \in PnlValues}
SeqsUpTo(S, n) == UNION {[1..k -> S] : k \in 0..n}
TradeLists == SeqsUpTo(TradeRecords, MaxTrades)

InitPnL ==
    /\ InitClient
    /\ ~wsCtorThrows
    /\ positions = <<>>
    /\ trades \in TradeLists
    /\ chartData = <<>>
    /\ uniqueTickers = <<>>
    /\ renders = 0
    /\ selectedTicker = NoTicker

\* The position and trade lists the ticker universe is derived from:
\* every window of a pool that holds a repeated ticker, the defaults and
\* more distinct tickers than the cap.
TickerPool ==
    <<"NVDA", "AMD", "MSFT", "AAPL", "AMZN", "META", "NVDA", "GOOG", "TSLA", "NFLX",
      "INTC", "AMC", "GME", "BB">>
Windows(seq) == {SubSeq(seq, i, j) : i \in 1..Len(seq), j \in 0..Len(seq)}
PositionLists ==
    {[k \in 1..Len(w) |-> [ticker |-> w[k]]] : w \in Windows(TickerPool)}
TickerTradeLists ==
    {[k \in 1..Len(w) |-> [ticker |-> w[k], timestamp |-> 1, realized_pnl |-> Undefined]] :
        w \in Windows(TickerPool)}

InitTickers ==
    /\ InitClient
    /\ ~wsCtorThrows
    /\ positions \in PositionLists
    /\ trades \in TickerTradeLists
    /\ chartData = <<>>
    /\ uniqueTickers = <<>>
    /\ renders = 0
    /\ selectedTicker = NoTicker

\* The lists the polls return while the selection is followed.
HeldTickers == {"NVDA", "AMD"}
HeldPositions == SeqsUpTo({[ticker |-> t] : t \in HeldTickers}, MaxHeld)
HeldTrades ==
    SeqsUpTo({[ticker |-> t, timestamp |-> 1, realized_pnl |-> Undefined] : t \in HeldTickers},
             MaxHeld)

\* ------------------------------------------------------ specifications
ChannelStep ==
    \/ Mount
    \/ Teardown
    \/ \E s \in SocketIds : SocketOpen(s)
    \/ \E s \in SocketIds, withError \in BOOLEAN : SocketClosed(s, withError)
    \/ \E t \in TimerIds : TimerFire(t)

FrameStepOf(frames, limit) ==
    \E s \in SocketIds, frame \in frames :
        /\ frame.type = "signal" => signalsReceived < limit
        /\ SocketMessage(s, frame)
        /\ UNCHANGED logVars
FrameStep(limit) == FrameStepOf(Frames, limit)

QueryStep ==
    \/ \E r \in Resources : PollTick(r)
    \/ \E r \in Resources, v \in Versions : FetchSucceed(r, v)
    \/ \E r \in Resources : FetchFail(r)

QueryStepOf(polled) ==
    \/ \E r \in polled : PollTick(r)
    \/ \E r \in polled, v \in Versions : FetchSucceed(r, v)
    \/ \E r \in polled : FetchFail(r)

\* The channel stays up: mount, open, teardown, the frames that reach the
\* callback's branches, and the polls of the performance and the trades
\* (the positions' polls are those of the trades under another key).
CoreStep ==
    \/ Mount
    \/ Teardown
    \/ \E s \in SocketIds : SocketOpen(s)
    \/ FrameStepOf(Envelopes \cup MalformedEnvelopes, CoreSignals)
    \/ QueryStepOf({"performance", "trades"})

\* A long run of frames on the first connection.
BufferStep ==
    \/ Mount
    \/ \E s \in SocketIds : SocketOpen(s)
    \/ FrameStep(MaxRun)

Next == ChannelStep \/ FrameStep(MaxSignals)

\* The push channel client with the handler it feeds.
Spec == Init /\ [][Next]_vars
\* The reconciliation core with the cached queries.
SpecCore == Init /\ [][CoreStep]_vars
\* The reconciliation core past the buffer's capacity.
SpecBuffer == Init /\ [][BufferStep]_vars

\* A frame arrives while the observer keeps the log: the frame is appended
\* to arrivalLog and the refetch() calls its handling made to refetchHistory.
LoggedFrame(s, frame) ==
    /\ Len(arrivalLog) < MaxFrames
    /\ SocketMessage(s, frame)
    /\ arrivalLog' = Append(arrivalLog, frame)
    /\ refetchHistory' = refetchHistory \o
          (IF Decodes(frame) /\ ~CallbackThrows(frame) THEN refetchLog' ELSE <<>>)

\* A short run of frames, each one logged.
OrderStep ==
    \/ Mount
    \/ Teardown
    \/ \E s \in SocketIds : SocketOpen(s)
    \/ \E s \in SocketIds, frame \in Frames : LoggedFrame(s, frame)
SpecOrder == Init /\ [][OrderStep]_vars

\* The push channel when the effect may re-run.
RerunStep == ChannelStep \/ Rerun
SpecRerun == Init /\ [][RerunStep]_vars

\* The push channel through all its states, with the cached queries beside it.
DegradedStep == ChannelStep \/ QueryStep
SpecDegraded == Init /\ [][DegradedStep]_vars
\* The push channel and its handler with the polls of one resource beside
\* them: every kind of event the client sees.
EveryEventStep == ChannelStep \/ FrameStep(CoreSignals) \/ QueryStepOf({"trades"})
SpecEvents == Init /\ [][EveryEventStep]_vars

\* The push channel under the event loop's guarantee that a pending timer's
\* callback runs (setTimeout, types.ts:107-110); the transport's events are
\* under no such guarantee.
TimersFire == WF_vars(\E t \in TimerIds : TimerFire(t))
SpecLive == Init /\ [][ChannelStep]_vars /\ TimersFire

\* The push channel against a push endpoint that cannot be reached: no
\* connection opens, every attempt ends in a Closed event, and pending timers
\* fire; the polls of one resource go on beside it.
UnreachableStep ==
    \/ QueryStepOf({"trades"})
    \/ Mount
    \/ Teardown
    \/ \E s \in SocketIds, withError \in BOOLEAN : SocketClosed(s, withError)
    \/ \E t \in TimerIds : TimerFire(t)
AttemptsFail == WF_vars(\E s \in SocketIds, withError \in BOOLEAN : SocketClosed(s, withError))
SpecUnreachable == Init /\ [][UnreachableStep]_vars /\ TimersFire /\ AttemptsFail

\* The P&L chart's derivation over bounded trade lists.
SpecPnL == InitPnL /\ [][Render]_vars
\* The ticker universe's derivation over bounded position and trade lists.
SpecTickers == InitTickers /\ [][Render]_vars

\* The sentiment chart's selector while polls change the lists and the user
\* picks tickers.
SelectionStep ==
    \/ Render
    \/ \E ps \in HeldPositions : PositionsArrive(ps)
    \/ \E ts \in HeldTrades : TradesArrive(ts)
    \/ \E t \in Range(TickerPool) : SelectTicker(t)
InitSelection == InitClient /\ ~wsCtorThrows /\ InitView
SpecSelection == InitSelection /\ [][SelectionStep]_vars

\* ---------------------------------------------------------------- claims
LiveSockets == {s \in SocketIds : sockets[s] \in {"CONNECTING", "OPEN"}}
Count(seq, x) == Cardinality({i \in 1..Len(seq) : seq[i] = x})

\* C1: after the effect's cleanup has run, onMessage is never invoked again.
C1_NoCallbackAfterTeardown == ~calledAfterTeardown

\* C2: in every state after teardown no reconnect timer is pending and no
\* connection is connecting or open.
C2_TeardownIsFinal == phase = "unmounted" => (timers = {} /\ LiveSockets = {})

\* C3: the k-th consecutive Closed event with no Open in between (k = 0, 1,
\* ...) schedules its reconnect with delay min(1000 * 2^k, 30000) ms, so the
\* first three schedule 1 s, 2 s and 4 s.
C3_BackoffDelay ==
    /\ \A i \in 1..Len(delayLog) :
          i <= 10 => delayLog[i] = Min(1000 * 2^(i - 1), 30000)
    /\ Len(delayLog) >= 3 => SubSeq(delayLog, 1, 3) = <<1000, 2000, 4000>>

C3_Witness == Len(delayLog) = 3 /\ delayLog[3] = 4000 /\ reconnectAttemptsRef = 2

\* C4: the Closed event that finds the attempt counter at 10 schedules no
\* reconnect and sets the terminal error; from then on no connection is
\* opened, no timer is pending and the state of the client does not change.
Terminal == reconnectAttemptsRef = 10 /\ Len(delayLog) = 11

C4_TerminalAfterMaxAttempts ==
    /\ [](Terminal => /\ delayLog[11] = 0
                      /\ error = ErrTerminal
                      /\ ~isConnected
                      /\ timers = {}
                      /\ LiveSockets = {})
    /\ [][Terminal => UNCHANGED <<sockets, timers, wsRef, error, isConnected,
                                  reconnectAttemptsRef, delayLog>>]_vars

C4_Witness == Terminal /\ error = ErrTerminal /\ phase = "mounted"

\* C5: over a run of consecutive Closed events with no Open in between the
\* scheduled delays never decrease and none exceeds 30 s.
C5_DelaysMonotoneCapped ==
    \A i, j \in 1..Len(delayLog) :
        (i <= j /\ delayLog[i] # 0 /\ delayLog[j] # 0)
            => (delayLog[i] <= delayLog[j] /\ delayLog[j] <= 30000)

C5_Witness == Len(delayLog) >= 7 /\ delayLog[5] = 16000 /\ delayLog[6] = 30000
              /\ delayLog[7] = 30000

\* C6: handling one `signal` envelope makes the buffer one longer, or leaves
\* it at capacity, and calls refetch once for positions and once for trades.
C6_SignalEffect ==
    [][signalsReceived' = signalsReceived + 1 =>
          /\ Len(liveSignals') = Min(Len(liveSignals) + 1, 50)
          /\ lastHandled' = "signal"
          /\ Count(refetchLog', "positions") = 1
          /\ Count(refetchLog', "trades") = 1
          /\ Len(refetchLog') = 2]_vars

C6_Witness == lastHandled = "signal" /\ signalsReceived = 51 /\ Len(liveSignals) = 50
              /\ refetchLog = <<"positions", "trades">>

\* C7: handling one `position_update` envelope calls refetch once for
\* positions and not at all for trades.
C7_PositionUpdateEffect ==
    lastHandled = "position_update" =>
        (Count(refetchLog, "positions") = 1 /\ Count(refetchLog, "trades") = 0)

C7_Witness == lastHandled = "position_update" /\ lastFrame = "position_update"
              /\ fetching["positions"]

\* C8: after n `signal` envelopes the buffer holds the min(n, 50) most
\* recent signals, newest first; with capacity 3, S1..S4 leave [S4, S3, S2].
RECURSIVE ReceiveAll(_, _, _)
ReceiveAll(buf, sigs, cap) ==
    IF sigs = <<>> THEN buf
    ELSE ReceiveAll(Prepend(Head(sigs), buf, cap), Tail(sigs), cap)

C8_BufferNewestFirst ==
    /\ Len(liveSignals) = Min(signalsReceived, 50)
    /\ \A i \in 1..Len(liveSignals) : liveSignals[i] = signalsReceived - i + 1
    /\ ReceiveAll(<<>>, <<1, 2, 3, 4>>, 3) = <<4, 3, 2>>

C8_Witness == signalsReceived = 52 /\ Len(liveSignals) = 50 /\ liveSignals[50] = 3

C10_StaleButAvailable ==
    /\ [](\A r \in Resources :
            (queryStatus[r] = "error" /\ phase = "mounted") => ENABLED PollTick(r))
    /\ [][\A r \in Resources :
            (fetching[r] /\ ~fetching'[r] /\ queryStatus'[r] = "error")
                => (Snapshot(r)' = Snapshot(r) /\ (queryData[r] # 0 => Snapshot(r)' # 0))]_vars

C10_Witness == queryStatus["trades"] = "error" /\ queryData["trades"] # 0
               /\ ~fetching["trades"] /\ phase = "mounted"

\* A step in which a frame of the given kind arrives on some open socket.
Arrives(kind) == \E s \in SocketIds, f \in Frames : f.kind = kind /\ SocketMessage(s, f)
MalformedKinds == {f.kind : f \in MalformedEnvelopes}

\* C11: a malformed envelope (unknown tag, or payload not of its tag's
\* shape) is dropped: the step in which it arrives leaves the signal buffer
\* and the live performance value unchanged and makes no refetch call
\* (either the callback is not reached, or it calls no refetch).
C11_MalformedDropped ==
    [][(\E k \in MalformedKinds : Arrives(k)) =>
         /\ UNCHANGED <<liveSignals, livePerformance, signalsReceived>>
         /\ \/ UNCHANGED <<lastHandled, refetchLog>>
            \/ refetchLog' = <<>>]_vars

\* C12: a frame whose text does not decode is dropped: the callback is not
\* invoked (nothing the callback writes changes) and the connection state,
\* the error status, the attempt counter, the reconnect timer and the
\* sockets stay as they were, so no reconnect is triggered.
C12_UndecodableDropped ==
    [][Arrives("garbage") =>
         /\ UNCHANGED <<lastHandled, refetchLog, liveSignals, livePerformance,
                        signalsReceived, fetching, calledAfterTeardown>>
         /\ UNCHANGED <<isConnected, error, reconnectAttemptsRef, reconnectTimeoutRef,
                        timers, sockets, wsRef, delayLog>>]_vars
C12_Witness ==
    /\ lastFrame = "garbage" /\ lastHandled = "signal" /\ isConnected
    /\ reconnectAttemptsRef = 0 /\ timers = {} /\ phase = "mounted"

\* What a trade contributes to realized P&L: its number, or nothing.
Value(trade) == IF trade.realized_pnl.t = "number" THEN trade.realized_pnl.n ELSE 0
RECURSIVE SumValues(_)
SumValues(list) == IF list = <<>> THEN 0 ELSE Value(Head(list)) + SumValues(Tail(list))
CarriesPnl(list) == {i \in 1..Len(list) : list[i].realized_pnl.t = "number"}
Point(ts, total) == [timestamp |-> ts, cumulative_pnl |-> total]
ScenarioTrades ==
    <<[ticker |-> "AAPL", timestamp |-> 1, realized_pnl |-> Null],
      [ticker |-> "AAPL", timestamp |-> 2, realized_pnl |-> Num(10)],
      [ticker |-> "AAPL", timestamp |-> 3, realized_pnl |-> Num(-4)]>>

\* C13: the series has one point per trade that carries a realized P&L and
\* none for a trade whose realized P&L is absent or null: its length is the
\* number of trades with a realized P&L, and the trades (1, null), (2, 10),
\* (3, -4) give the series (2, 10), (3, 6).
C13_OnePointPerRealizedTrade ==
    renders > 0 =>
        /\ Len(chartData) = Cardinality(CarriesPnl(trades))
        /\ trades = ScenarioTrades => chartData = <<Point(2, 10), Point(3, 6)>>

Ascending(series) ==
    \A i, j \in 1..Len(series) : i < j => series[i].timestamp <= series[j].timestamp
Injections(n, m) == {f \in [1..n -> 1..m] : \A i, j \in 1..n : f[i] = f[j] => i = j}
\* The points are the running totals of distinct trades of the list, taken
\* in the series' order, and no trade with a realized P&L is left out.
RunningTotals(series, list) ==
    \E f \in Injections(Len(series), Len(list)) :
        /\ CarriesPnl(list) \subseteq {f[i] : i \in 1..Len(series)}
        /\ \A i \in 1..Len(series) :
              /\ series[i].timestamp = list[f[i]].timestamp
              /\ series[i].cumulative_pnl = SumValues([k \in 1..i |-> list[f[k]]])
FinalTotal(series) == IF series = <<>> THEN 0 ELSE series[Len(series)].cumulative_pnl
Permuted(list, f) == [i \in 1..Len(list) |-> list[f[i]]]

\* C14: for every trade list and every permutation of it the series is in
\* ascending timestamp order, each point's running total is the sum of the
\* realized P&L of the trades up to and including it in that order, and the
\* final running total is the sum of all realized P&L of the input.
C14_SortedRunningTotals ==
    renders > 0 =>
        /\ Ascending(chartData)
        /\ RunningTotals(chartData, trades)
        /\ FinalTotal(chartData) = SumValues(trades)
        /\ \A f \in Injections(Len(trades), Len(trades)) :
              LET series == cumulativePnL(Permuted(trades, f), <<>>)
              IN  /\ Ascending(series)
                  /\ Len(series) = Len(chartData)
                  /\ FinalTotal(series) = FinalTotal(chartData)
C14_Witness ==
    /\ renders > 0
    /\ Len(trades) = 3
    /\ trades[1].timestamp = 3 /\ trades[2].timestamp = 1 /\ trades[3].timestamp = 1
    /\ trades[1].realized_pnl = Num(10)
    /\ trades[2].realized_pnl = Num(-4)
    /\ trades[3].realized_pnl = Num(10)
    /\ chartData = <<Point(1, -4), Point(1, 6), Point(3, 16)>>

NoDuplicates(seq) == \A i, j \in 1..Len(seq) : seq[i] = seq[j] => i = j

\* C16: for all positions, trades and default tickers the ticker universe
\* has no duplicate entry and at most 10 entries.
C16_UniverseDistinctCapped ==
    renders > 0 => (NoDuplicates(uniqueTickers) /\ Len(uniqueTickers) <= 10)
C16_Witness ==
    /\ renders > 0
    /\ Len(positions) >= 7 /\ positions[1].ticker = positions[7].ticker
    /\ Len(trades) > 0
    /\ Len(uniqueTickers) = 10

\* All position tickers, then the tickers of the first 10 trades, then the
\* defaults.
Concatenation ==
    [i \in 1..Len(positions) |-> positions[i].ticker]
    \o [i \in 1..Min(Len(trades), 10) |-> trades[i].ticker]
    \o <<"AAPL", "TSLA", "GME">>
FirstAt(seq, x) == CHOOSE i \in 1..Len(seq) : seq[i] = x /\ \A j \in 1..(i - 1) : seq[j] # x
\* The distinct tickers that occur before the first occurrence of x.
Preceding(x) ==
    {y \in Range(Concatenation) : FirstAt(Concatenation, y) < FirstAt(Concatenation, x)}
PositionTickers == {positions[i].ticker : i \in 1..Len(positions)}

\* C17: the ticker universe is the first 10 entries of the de-duplicated
\* concatenation, in first-occurrence order: it holds exactly the tickers
\* that fewer than 10 distinct tickers precede, in the order of their first
\* occurrences; so position tickers come before all others, a default is in
\* it whenever fewer than 10 distinct tickers precede it, and it is never
\* empty.
C17_UniverseIsPrefixOfDedup ==
    renders > 0 =>
        /\ Range(uniqueTickers) =
              {x \in Range(Concatenation) : Cardinality(Preceding(x)) < 10}
        /\ \A i, j \in 1..Len(uniqueTickers) :
              i < j => FirstAt(Concatenation, uniqueTickers[i])
                         < FirstAt(Concatenation, uniqueTickers[j])
        /\ \A i \in 1..Min(Len(uniqueTickers), Cardinality(PositionTickers)) :
              uniqueTickers[i] \in PositionTickers
        /\ \A dflt \in {"AAPL", "TSLA", "GME"} :
              Cardinality(Preceding(dflt)) < 10 => dflt \in Range(uniqueTickers)
        /\ uniqueTickers # <<>>
C17_Witness ==
    /\ renders > 0
    /\ positions = <<>>
    /\ Len(trades) = 14
    /\ uniqueTickers = <<"NVDA", "AMD", "MSFT", "AAPL", "AMZN", "META", "GOOG", "TSLA",
                         "NFLX", "GME">>

\* C18: loss of the push channel never blocks the pull path: in every state
\* of the push channel while the component is mounted, the terminal state
\* included, a poll of each resource can be issued, a fetch in flight can
\* succeed, and a fetch that succeeds replaces the resource's snapshot.
C18_PullSurvivesPushLoss ==
    /\ [](phase = "mounted" => \A r \in Resources : ENABLED PollTick(r))
    /\ [](\A r \in Resources, v \in Versions : fetching[r] => ENABLED FetchSucceed(r, v))
    /\ [][\A r \in Resources, v \in Versions :
            FetchSucceed(r, v) => (Snapshot(r)' = v /\ queryStatus'[r] = "success")]_vars
C18_Witness ==
    /\ Terminal /\ error = ErrTerminal /\ ~isConnected /\ phase = "mounted"
    /\ queryStatus["positions"] = "success" /\ queryData["positions"] = 2
    /\ fetching["trades"]
    /\ queryStatus["performance"] = "error"

\* What the arrival order alone determines: each `signal` goes to the front
\* of the buffer, and each envelope's refetch calls follow those of the
\* envelopes before it.
SignalsIn(log) == Cardinality({i \in 1..Len(log) : log[i].kind = "signal"})
NewestFirst(n) == [i \in 1..Min(n, 50) |-> n - i + 1]
RECURSIVE CallsInOrder(_)
CallsInOrder(log) ==
    IF log = <<>> THEN <<>>
    ELSE (IF Head(log).kind = "signal" THEN <<"positions", "trades">>
          ELSE IF Head(log).kind = "position_update" THEN <<"positions">>
          ELSE <<>>) \o CallsInOrder(Tail(log))
WellFormedRun == \A i \in 1..Len(arrivalLog) : arrivalLog[i] \notin MalformedEnvelopes

OpenSockets == {s \in SocketIds : sockets[s] = "OPEN"}

\* C20: while the client is mounted and connected (a connection is open)
\* exactly one connection is open, so that an envelope the server sends
\* reaches the subscriber callback exactly once, whatever opens, closes,
\* reconnects and changes of the callback's identity came before.
C20_ExactlyOnceDelivery ==
    (phase = "mounted" /\ OpenSockets # {}) => Cardinality(OpenSockets) = 1

\* C21: the signal buffer changes only in a step in which a `signal`
\* envelope arrives (polls, other envelopes and connection events leave it
\* as it is), and a signal in the buffer leaves it only when 50 newer signals
\* have been received: when signal 51 arrives at the buffer 50, ..., 1,
\* signal 1 leaves and signal 2 stays.
C21_BufferChangesOnlyOnSignal ==
    /\ [][liveSignals' # liveSignals =>
            \E s \in SocketIds, f \in Frames : f.type = "signal" /\ SocketMessage(s, f)]_vars
    /\ [][\A x \in Range(liveSignals) :
            x \in Range(liveSignals') \/ signalsReceived' - x >= 50]_vars
    /\ [](LET full == [i \in 1..50 |-> 51 - i]
              next == Prepend(51, full, BufferCap)
          IN  2 \in Range(next) /\ 1 \notin Range(next) /\ next[1] = 51)
C21_Witness ==
    /\ liveSignals = <<1>>
    /\ lastFrame = "performance"
    /\ queryStatus["trades"] = "error"
    /\ ~isConnected /\ Len(delayLog) = 2 /\ reconnectAttemptsRef = 1

CurrentOpen == wsRef # 0 /\ sockets[wsRef] = "OPEN"

\* C22: while the component is mounted isConnected is true exactly when the
\* client's current connection is open; it is false while connecting, after
\* a close and in the terminal state.
C22_IndicatorReflectsChannel ==
    phase = "mounted" =>
        /\ isConnected <=> CurrentOpen
        /\ (wsRef # 0 /\ sockets[wsRef] \in {"CONNECTING", "CLOSED"}) => ~isConnected
        /\ Terminal => ~isConnected
C22_Witness ==
    /\ phase = "mounted" /\ isConnected /\ CurrentOpen
    /\ error = NoError /\ reconnectAttemptsRef = 0 /\ lastFrame = "signal"

\* C23: the client is a pure subscriber: in no reachable state has it sent
\* a frame on a connection.
C23_NeverSends == sentFrames = 0
C23_Witness ==
    /\ sentFrames = 0
    /\ isConnected /\ CurrentOpen /\ lastHandled = "signal" /\ phase = "mounted"

\* C24: the client owns at most one push connection at a time: in every
\* reachable state at most one connection is connecting or open and at most
\* one reconnect timer is pending, re-runs of the effect included.
C24_OneConnectionOneTimer ==
    Cardinality(LiveSockets) <= 1 /\ Cardinality(timers) <= 1

\* C25: an Open event resets the attempt counter to 0, so the first Closed
\* event after any Open (delayLog starts anew at an Open) schedules its
\* reconnect after exactly 1 s whatever the counter was before, and the
\* terminal error comes only after 10 further reconnects have been scheduled.
C25_OpenResetsCounter ==
    /\ [][(\E s \in SocketIds : SocketOpen(s)) => reconnectAttemptsRef' = 0]_vars
    /\ [](Len(delayLog) >= 1 => delayLog[1] = 1000)
    /\ [](error = ErrTerminal =>
            (Len(delayLog) = 11 /\ \A i \in 1..10 : delayLog[i] > 0))
C25_Witness ==
    /\ reopened
    /\ delayLog = <<1000>> /\ reconnectAttemptsRef = 0 /\ timers # {}
    /\ phase = "mounted"

\* C26: while the client stays mounted, a Closed event that finds the attempt
\* counter below the maximum is eventually followed by a new connection
\* attempt, given that pending timers fire; and the one step the client takes
\* without a lifecycle or transport event, the timer's callback, always goes
\* from a Closed current connection to a Connecting one, while a connection
\* leaves Connecting or Open only by a transport event or the teardown.
ClosedBelowMax ==
    /\ phase = "mounted"
    /\ wsRef # 0 /\ sockets[wsRef] = "CLOSED"
    /\ reconnectAttemptsRef < maxAttempts
NewAttempt == wsRef # 0 /\ sockets[wsRef] = "CONNECTING"
C26_ClosedLeadsToConnecting ==
    /\ ClosedBelowMax ~> (phase = "unmounted" \/ NewAttempt)
    /\ [][(\E t \in TimerIds : TimerFire(t)) =>
            (wsRef # 0 /\ sockets[wsRef] = "CLOSED" /\ sockets'[wsRef'] = "CONNECTING")]_vars
    /\ [][\A s \in SocketIds :
            (sockets[s] \in {"CONNECTING", "OPEN"} /\ sockets'[s] \notin {"CONNECTING", "OPEN"})
                => (Teardown \/ \E e \in BOOLEAN : SocketClosed(s, e))]_vars
C26_Witness ==
    /\ phase = "mounted" /\ NewAttempt
    /\ reconnectAttemptsRef = 3 /\ timers = {} /\ Len(delayLog) = 3

\* C27: when no connection ever opens, the client that stays mounted reaches
\* the terminal error; by then it has made 11 connections, 10 of them from a
\* reconnect timer, it never makes more, and the terminal state is kept.
Connections ==
    Len(delayLog) + Cardinality({s \in SocketIds : sockets[s] \in {"CONNECTING", "OPEN", "CLOSING"}})
Reconnects == Cardinality({i \in 1..Len(delayLog) : delayLog[i] > 0})
C27_UnreachableBackendTerminates ==
    /\ (phase = "mounted" /\ ~wsCtorThrows) ~> (error = ErrTerminal \/ phase = "unmounted")
    /\ [](Connections <= 11 /\ Reconnects <= 10)
    /\ [](error = ErrTerminal =>
            (Connections = 11 /\ Reconnects = 10 /\ reconnectAttemptsRef = 10))
    /\ [][error = ErrTerminal =>
            (error' = ErrTerminal /\ Connections' = 11 /\ ~ENABLED (\E t \in TimerIds : TimerFire(t)))]_vars
C27_Witness ==
    /\ error = ErrTerminal /\ phase = "mounted"
    /\ Connections = 11 /\ Reconnects = 10 /\ ~isConnected

\* C28: in every reachable state the attempt counter lies between 0 and the
\* maximum, 10, whatever the interleaving of open, close, error, timer,
\* re-run and teardown events.
C28_CounterWithinBounds == reconnectAttemptsRef \in 0..maxAttempts

\* C29: the error status becomes the terminal string only in a Closed event
\* that finds the attempt counter at the maximum; every Open event leaves the
\* error status null; so whenever isConnected turns true the error status is
\* null.
C29_TerminalErrorAndClear ==
    /\ [][(error # ErrTerminal /\ error' = ErrTerminal) =>
            /\ \E s \in SocketIds, e \in BOOLEAN : SocketClosed(s, e)
            /\ reconnectAttemptsRef = maxAttempts]_vars
    /\ [][(\E s \in SocketIds : SocketOpen(s)) => error' = NoError]_vars
    /\ [][(~isConnected /\ isConnected') => error' = NoError]_vars
    /\ [](isConnected /\ CurrentOpen => error = NoError)
C29_Witness ==
    /\ reopened /\ isConnected /\ error = NoError
    /\ delayLog = <<>> /\ CurrentOpen /\ phase = "mounted"

\* C30: a frame whose handling raises a fault (text that does not decode, or
\* the value null, on which the callback throws) changes nothing: the
\* connection state, the error status, the counter, the timers and the
\* sockets stay as they were, the client's data is untouched, and the frame
\* that arrives next on the same connection is handled as usual.
FaultKinds == {"garbage", "null_value"}
C30_FaultsStayInsideHandler ==
    /\ [][(\E k \in FaultKinds : Arrives(k)) =>
            /\ UNCHANGED <<isConnected, error, reconnectAttemptsRef, reconnectTimeoutRef,
                           timers, sockets, wsRef, delayLog, phase>>
            /\ UNCHANGED <<liveSignals, livePerformance, lastHandled, fetching>>]_vars
    /\ [](lastFrame \in FaultKinds =>
            \A s \in OpenSockets, f \in Envelopes : ENABLED SocketMessage(s, f))
    /\ [][\A f \in Envelopes :
            (lastFrame \in FaultKinds /\ \E s \in SocketIds : SocketMessage(s, f))
                => (lastHandled' = f.type /\ lastFrame' = f.kind)]_vars
C30_Witness ==
    /\ lastFrame = "null_value" /\ lastHandled = "performance"
    /\ isConnected /\ OpenSockets # {} /\ timers = {} /\ error = NoError
    /\ phase = "mounted"

\* C31: the step in which a `performance` envelope arrives makes no refetch
\* call and leaves the signal buffer as it was; a `position_update` envelope
\* leaves the signal buffer and the live performance value as they were; a
\* `signal` envelope leaves the live performance value as it was.
C31_BranchesAreDisjoint ==
    /\ [][Arrives("performance") =>
            /\ refetchLog' = <<>> /\ fetching' = fetching
            /\ liveSignals' = liveSignals /\ signalsReceived' = signalsReceived]_vars
    /\ [][Arrives("position_update") =>
            (liveSignals' = liveSignals /\ livePerformance' = livePerformance)]_vars
    /\ [][Arrives("signal") => livePerformance' = livePerformance]_vars
C31_Witness ==
    /\ lastFrame = "signal" /\ lastHandled = "signal"
    /\ livePerformance # NoPerf /\ livePerformance = lastPushed
    /\ Len(liveSignals) = 2

\* C32: the displayed feed is the first min(10, length) entries of the
\* live-signal buffer in the buffer's order, so it holds the 10 most recently
\* received signals, newest first, and never more than 10.
C32_FeedIsBufferPrefix ==
    /\ Len(SignalsFeed) = Min(FeedMax, Len(liveSignals))
    /\ Len(SignalsFeed) <= 10
    /\ \A i \in 1..Len(SignalsFeed) :
          SignalsFeed[i] = liveSignals[i] /\ SignalsFeed[i] = signalsReceived - i + 1
C32_Witness ==
    /\ signalsReceived = 12 /\ Len(liveSignals) = 12
    /\ SignalsFeed = <<12, 11, 10, 9, 8, 7, 6, 5, 4, 3>>

\* C33: while the sentiment chart is shown, the ticker selected in it is one
\* of the tickers of the universe it is rendered with.
C33_SelectionInUniverse ==
    selectedTicker # NoTicker => selectedTicker \in Range(uniqueTickers)

\* C34: when `new WebSocket` throws inside connect(), the step sets the error
\* status to 'Failed to create WebSocket connection', creates no connection,
\* schedules no timer and leaves the attempt counter and isConnected as they
\* were; nothing retries afterwards.
C34_CreateFailure ==
    /\ [][(wsCtorThrows /\ Mount) =>
            /\ error' = ErrCreate
            /\ UNCHANGED <<timers, reconnectTimeoutRef, reconnectAttemptsRef, isConnected,
                           sockets, wsRef>>]_vars
    /\ []((wsCtorThrows /\ phase # "idle") =>
            /\ error = "Failed to create WebSocket connection"
            /\ timers = {} /\ reconnectAttemptsRef = 0 /\ ~isConnected
            /\ \A s \in SocketIds : sockets[s] = "NONE")
C34_Witness ==
    /\ wsCtorThrows /\ phase = "mounted" /\ error = ErrCreate
    /\ timers = {} /\ reconnectAttemptsRef = 0 /\ ~isConnected /\ wsRef = 0

====
